---- MODULE Spec2Model ----
(***************************************************************************)
(* Model of perceiver_pytorch/perceiver_pytorch.py: the construction of a  *)
(* Perceiver (the layer stack built through cache_fn) and one call of      *)
(* Perceiver.forward, followed statement by statement.  Tensors are        *)
(* modelled by their shape (a sequence of sizes) and by a symbolic value   *)
(* (the sequence of terms whose sum the tensor is); module instances are   *)
(* records carrying a fresh object identity `id`.                          *)
(*                                                                         *)
(* Line 342 of the source reads `b, *axis, _ = *data.shape`; it is modelled*)
(* as the unpacking `b, *axis, _ = data.shape` it stands for.              *)
(***************************************************************************)
EXTENDS Integers, Sequences, FiniteSets, TLC

\* ---------------------------------------------------------------- bounds
MaxDepth == 3
MaxSelfPerCross == 2
MaxFreqBands == 1
MaxBatch == 2
MaxAxisSize == 2
MaxAxes == 3

\* ------------------------------------------- defaults of Perceiver.__init__
input_channels == 3
input_axis == 2
num_latents_default == 512
latent_dim == 512
cross_heads == 1
latent_heads == 8
cross_dim_head == 64
latent_dim_head == 64
num_classes == 1000
ff_mult == 4

Roles == {"cross_attn", "cross_ff", "latent_attn", "latent_ff"}

\* The construction parameters a caller may pass (zero values included: the
\* constructor accepts them).
Configs ==
    [depth : 0..MaxDepth,
     self_per_cross_attn : 0..MaxSelfPerCross,
     weight_tie_layers : BOOLEAN,
     fourier_encode_data : BOOLEAN,
     self_attn_rel_pos : BOOLEAN,
     num_freq_bands : {0, MaxFreqBands},
     num_latents : {0, num_latents_default}]

VARIABLES
    cfg,        \* the keyword arguments of Perceiver.__init__
    pc,         \* position in __init__ / forward
    i, j,       \* __init__: loop indices (for i in range(depth), for _ in range(self_per_cross_attn))
    should_cache,  \* __init__: the local of that name
    pending,    \* __init__: the get_latent_attn result awaiting its get_latent_ff
    self_attns, \* __init__: the list being filled for group i
    layers,     \* self.layers
    cache,      \* the `cache` cell of each cached_fn closure (<<>> is None)
    builds,     \* per role: how many times the wrapped factory f ran, by _cache
    nextId,     \* object identities handed out so far
    latents,    \* self.latents (shape)
    sinu_emb,   \* self.sinu_emb (<<>> is None)
    data0,      \* forward: shape of the `data` argument as passed
    data,       \* forward: shape of `data`
    mask,       \* forward: shape of `mask` (<<>> is None)
    x,          \* forward: the latent state [shape, val]
    pos_emb,    \* forward: the rotation table (<<>> is None)
    g, k,       \* forward: group index, self-block index
    steps,      \* forward: log of the operations executed, in order
    trace,      \* forward: log of the completed sublayer applications
    result,     \* forward: shape of the return value (<<>> before return)
    err         \* the exception raised ("" if none)

ctorVars == <<cfg, i, j, should_cache, pending, self_attns, layers, cache, builds,
              nextId, latents, sinu_emb>>
fwdVars == <<data0, data, mask, x, pos_emb, g, k, steps, trace, result, err>>
vars == <<pc, ctorVars, fwdVars>>

\* ---------------------------------------------------------------- helpers
RECURSIVE Prod(_)
Prod(s) == IF s = <<>> THEN 1 ELSE Head(s) * Prod(Tail(s))

Last(s) == s[Len(s)]
Front(s) == SubSeq(s, 1, Len(s) - 1)
SetLast(s, v) == Front(s) \o <<v>>

\* fourier_channels in __init__
FourierChannels(c) ==
    IF c.fourier_encode_data THEN input_axis * ((c.num_freq_bands * 2) + 1) ELSE 0

InputDim(c) == FourierChannels(c) + input_channels

\* ------------------------------------------------------------- factories
get_cross_attn(c, id) ==
    [id |-> id, role |-> "cross_attn", norm_dim |-> latent_dim,
     norm_context_dim |-> InputDim(c), query_dim |-> latent_dim,
     context_dim |-> InputDim(c), heads |-> cross_heads, dim_head |-> cross_dim_head]

get_cross_ff(c, id) ==
    [id |-> id, role |-> "cross_ff", norm_dim |-> latent_dim,
     norm_context_dim |-> 0, query_dim |-> latent_dim,
     context_dim |-> 0, heads |-> 0, dim_head |-> 0]

\* Attention.__init__: context_dim = default(context_dim, query_dim)
get_latent_attn(c, id) ==
    [id |-> id, role |-> "latent_attn", norm_dim |-> latent_dim,
     norm_context_dim |-> 0, query_dim |-> latent_dim,
     context_dim |-> latent_dim, heads |-> latent_heads, dim_head |-> latent_dim_head]

get_latent_ff(c, id) ==
    [id |-> id, role |-> "latent_ff", norm_dim |-> latent_dim,
     norm_context_dim |-> 0, query_dim |-> latent_dim,
     context_dim |-> 0, heads |-> 0, dim_head |-> 0]

Factory(role, c, id) ==
    CASE role = "cross_attn" -> get_cross_attn(c, id)
      [] role = "cross_ff" -> get_cross_ff(c, id)
      [] role = "latent_attn" -> get_latent_attn(c, id)
      [] role = "latent_ff" -> get_latent_ff(c, id)

\* ---------------------------------------------------------------- cache_fn
\* cached_fn(*args, _cache): `cell` is the closure's cache (<<>> for None),
\* `fresh` what f(*args) would return.  Gives the value returned, the cache
\* afterwards and whether f was called.
cached_fn_never_stores(cell, fresh, use_cache) ==
    IF ~use_cache
    THEN [ret |-> fresh, cache |-> cell, called |-> TRUE]
    ELSE IF cell # <<>>
         THEN [ret |-> cell[1], cache |-> cell, called |-> FALSE]
         ELSE [ret |-> fresh, cache |-> cell, called |-> TRUE]

cached_fn(cell, fresh, use_cache) ==
    IF ~use_cache
    THEN [ret |-> fresh, cache |-> cell, called |-> TRUE]
    ELSE IF cell # <<>>
         THEN [ret |-> cell[1], cache |-> cell, called |-> FALSE]
         ELSE [ret |-> fresh, cache |-> <<fresh>>, called |-> TRUE]

\* should_cache = i > 0 and weight_tie_layers
ShouldCache_from_first(idx, tie) == tie

ShouldCache(idx, tie) == idx > 0 /\ tie

\* ------------------------------------------------------------------- Init
Init ==
    /\ cfg \in Configs
    /\ pc = "init"
    /\ i = 0 /\ j = 0
    /\ should_cache = FALSE
    /\ pending = <<>>
    /\ self_attns = <<>>
    /\ layers = <<>>
    /\ cache = [r \in Roles |-> <<>>]
    /\ builds = [r \in Roles |-> [uncached |-> 0, cached |-> 0]]
    /\ nextId = 0
    /\ latents = <<>>
    /\ sinu_emb = <<>>
    /\ data0 = <<>> /\ data = <<>> /\ mask = <<>>
    /\ x = [shape |-> <<>>, val |-> <<>>]
    /\ pos_emb = <<>>
    /\ g = 0 /\ k = 0
    /\ steps = <<>> /\ trace = <<>>
    /\ result = <<>>
    /\ err = ""

\* ------------------------------------------------------ Perceiver.__init__
\* lines 254-306: attributes, input_dim, self.latents, the cached factories
InitLatents ==
    /\ pc = "init"
    /\ latents' = <<cfg.num_latents, latent_dim>>
    /\ layers' = <<>>
    /\ i' = 0
    /\ pc' = "for_i"
    /\ UNCHANGED <<cfg, j, should_cache, pending, self_attns, cache, builds, nextId,
                   sinu_emb, fwdVars>>

\* line 309-313: one turn of `for i in range(depth)`
LoopHead ==
    /\ pc = "for_i"
    /\ IF i < cfg.depth
       THEN /\ should_cache' = ShouldCache(i, cfg.weight_tie_layers)
            /\ self_attns' = <<>>
            /\ j' = 0
            /\ pc' = IF cfg.self_per_cross_attn > 0 THEN "get_latent_attn"
                     ELSE "get_cross_attn"
       ELSE /\ pc' = "to_logits"
            /\ UNCHANGED <<should_cache, self_attns, j>>
    /\ UNCHANGED <<cfg, i, pending, layers, cache, builds, nextId, latents, sinu_emb,
                   fwdVars>>

\* One call role(**cache_args) of a cached factory: the state it changes.
Call(role, r) ==
    /\ cache' = [cache EXCEPT ![role] = r.cache]
    /\ nextId' = IF r.called THEN nextId + 1 ELSE nextId
    /\ builds' = IF ~r.called THEN builds
                 ELSE IF should_cache
                      THEN [builds EXCEPT ![role].cached = @ + 1]
                      ELSE [builds EXCEPT ![role].uncached = @ + 1]

\* line 319
BuildLatentAttn ==
    /\ pc = "get_latent_attn"
    /\ LET r == cached_fn(cache["latent_attn"],
                          Factory("latent_attn", cfg, nextId + 1), should_cache)
       IN /\ Call("latent_attn", r)
          /\ pending' = <<r.ret>>
    /\ pc' = "get_latent_ff"
    /\ UNCHANGED <<cfg, i, j, should_cache, self_attns, layers, latents, sinu_emb,
                   fwdVars>>

\* lines 320, 316: get_latent_ff, then self_attns.append
BuildLatentFF ==
    /\ pc = "get_latent_ff"
    /\ LET r == cached_fn(cache["latent_ff"],
                          Factory("latent_ff", cfg, nextId + 1), should_cache)
       IN /\ Call("latent_ff", r)
          /\ self_attns' = Append(self_attns, [attn |-> pending[1], ff |-> r.ret])
    /\ pending' = <<>>
    /\ j' = j + 1
    /\ pc' = IF j + 1 < cfg.self_per_cross_attn THEN "get_latent_attn"
             ELSE "get_cross_attn"
    /\ UNCHANGED <<cfg, i, should_cache, layers, latents, sinu_emb, fwdVars>>

\* line 327
BuildCrossAttn ==
    /\ pc = "get_cross_attn"
    /\ LET r == cached_fn(cache["cross_attn"],
                          Factory("cross_attn", cfg, nextId + 1), should_cache)
       IN /\ Call("cross_attn", r)
          /\ pending' = <<r.ret>>
    /\ pc' = "get_cross_ff"
    /\ UNCHANGED <<cfg, i, j, should_cache, self_attns, layers, latents, sinu_emb,
                   fwdVars>>

\* lines 328, 324: get_cross_ff, then self.layers.append
BuildCrossFF ==
    /\ pc = "get_cross_ff"
    /\ LET r == cached_fn(cache["cross_ff"],
                          Factory("cross_ff", cfg, nextId + 1), should_cache)
       IN /\ Call("cross_ff", r)
          /\ layers' = Append(layers, [cross_attn |-> pending[1], cross_ff |-> r.ret,
                                       self_attns |-> self_attns])
    /\ pending' = <<>>
    /\ i' = i + 1
    /\ pc' = "for_i"
    /\ UNCHANGED <<cfg, j, should_cache, self_attns, latents, sinu_emb, fwdVars>>

\* lines 333-339: to_logits, sinu_emb
FinishInit ==
    /\ pc = "to_logits"
    /\ sinu_emb' = IF cfg.self_attn_rel_pos THEN <<latent_dim_head>> ELSE <<>>
    /\ pc' = "ready"
    /\ UNCHANGED <<cfg, i, j, should_cache, pending, self_attns, layers, cache, builds,
                   nextId, latents, fwdVars>>

Construct ==
    \/ InitLatents
    \/ LoopHead
    \/ BuildLatentAttn
    \/ BuildLatentFF
    \/ BuildCrossAttn
    \/ BuildCrossFF
    \/ FinishInit

\* ---------------------------------------------------------- tensor shapes
\* Running a list of operations [op, ok] in order: the operations reached
\* (the failing one included) and whether all succeeded.
RECURSIVE RunOps(_)
RunOps(checks) ==
    IF checks = <<>> THEN [ok |-> TRUE, ops |-> <<>>]
    ELSE IF ~Head(checks).ok THEN [ok |-> FALSE, ops |-> <<Head(checks).op>>]
    ELSE LET rest == RunOps(Tail(checks))
         IN [ok |-> rest.ok, ops |-> <<Head(checks).op>> \o rest.ops]

Step(op, ok) == [op |-> op, ok |-> ok]

\* A mask of shape m can be broadcast onto scores of shape s (masked_fill_).
Broadcastable(m, s) ==
    /\ Len(m) = Len(s)
    /\ \A d \in 1..Len(m) : m[d] = s[d] \/ m[d] = 1

\* rearrange(mask, "b ... -> b (...)") then repeat(mask, "b j -> (b h) () j", h=h)
MaskPerHead(m, h) == <<m[1] * h, 1, Prod(Tail(m))>>

\* Attention.forward output, lines 193-195: [b, n, query_dim]
AttentionOutShape_no_to_out(inst, xs) == <<xs[1], xs[2], inst.heads * inst.dim_head>>

AttentionOutShape(inst, xs) == <<xs[1], xs[2], inst.query_dim>>

\* Attention.forward, lines 159-195, on a query input of shape xs, a context
\* of shape ctx (<<>> for None), a mask of shape m (<<>> for None) and a
\* rotation table pe (<<>> for None).
AttentionForward(inst, xs, ctx, m, pe) ==
    LET h == inst.heads
        context == IF ctx = <<>> THEN xs ELSE ctx
        sim == <<xs[1] * h, xs[2], context[2]>>
        r == RunOps(
               <<Step("to_q", Len(xs) = 3 /\ Last(xs) = inst.query_dim),
                 Step("to_kv", Len(context) = 3 /\ Last(context) = inst.context_dim
                               /\ context[1] = xs[1])>>
               \o <<Step("split_heads", TRUE)>>
               \o (IF pe # <<>> THEN <<Step("apply_rotary_emb", TRUE)>> ELSE <<>>)
               \o <<Step("sim", TRUE)>>
               \o (IF m # <<>>
                   THEN <<Step("masked_fill", Broadcastable(MaskPerHead(m, h), sim))>>
                   ELSE <<>>)
               \o <<Step("softmax", TRUE), Step("attn_v", TRUE),
                    Step("merge_heads", TRUE), Step("to_out", TRUE)>>)
    IN [ok |-> r.ok, ops |-> r.ops,
        shape |-> IF r.ok THEN AttentionOutShape(inst, xs) ELSE <<>>]

\* FeedForward.forward, lines 112-120: Linear, GEGLU, Dropout, Linear
FeedForwardForward(inst, xs) ==
    LET r == RunOps(<<Step("ff_in", Last(xs) = inst.query_dim),
                      Step("geglu", (inst.query_dim * ff_mult * 2) % 2 = 0),
                      Step("ff_out", TRUE)>>)
    IN [ok |-> r.ok, ops |-> r.ops,
        shape |-> IF r.ok THEN SetLast(xs, inst.query_dim) ELSE <<>>]

\* PreNorm.forward, lines 80-88, around an Attention or a FeedForward; args
\* are the keyword arguments of the call.
PreNormForward(inst, xs, args) ==
    LET norm == RunOps(
                  <<Step("norm", Last(xs) = inst.norm_dim)>>
                  \o (IF inst.norm_context_dim # 0
                      THEN <<Step("norm_context",
                                  /\ args.context # <<>>
                                  /\ Last(args.context) = inst.norm_context_dim)>>
                      ELSE <<>>))
        fn == IF inst.heads # 0
              THEN AttentionForward(inst, xs, args.context, args.mask, args.pos_emb)
              ELSE FeedForwardForward(inst, xs)
    IN IF ~norm.ok THEN [ok |-> FALSE, ops |-> norm.ops, shape |-> <<>>]
       ELSE [ok |-> fn.ok, ops |-> norm.ops \o fn.ops, shape |-> fn.shape]

\* ----------------------------------------------------------- tensor values
\* A value is the sequence of the terms it is the sum of.  The output of a
\* sublayer is one term: which instance produced it, from which input.
SublayerOut(inst, xval) == <<[fn |-> inst.id, at |-> Len(xval)]>>

LatentsValue == <<[fn |-> 0, at |-> 0]>>

\* Shape of a + b under broadcasting (same rank), and whether it exists.
CanAdd(a, b) ==
    /\ Len(a) = Len(b)
    /\ \A d \in 1..Len(a) : a[d] = b[d] \/ a[d] = 1 \/ b[d] = 1

AddShape(a, b) == [d \in 1..Len(a) |-> IF a[d] = 1 THEN b[d] ELSE a[d]]

\* `fn(x, ...) + x` of lines 379-384
Residual_replaces(out, xval) == out

Residual(out, xval) == xval \o out

\* --------------------------------------------------------- Perceiver.forward
\* The inputs a caller may pass: data of any rank from 1 up, each size 1 or
\* the largest, and for the mask
\* None, the [batch, *spatial_axes] shape, or a pre-flattened mask one
\* position too long.
RECURSIVE AxesOfLen(_)
AxesOfLen(n) ==
    IF n = 0 THEN {<<>>}
    ELSE {<<s>> \o a : s \in {1, MaxAxisSize}, a \in AxesOfLen(n - 1)}

DataShapes ==
    {<<input_channels>>}
    \cup {<<b>> \o a \o <<input_channels>> :
            b \in {1, MaxBatch}, a \in UNION {AxesOfLen(n) : n \in 0..MaxAxes}}

MaskShapes(d) ==
    IF Len(d) < 2 THEN {<<>>}
    ELSE {<<>>, Front(d), <<d[1], Prod(SubSeq(d, 2, Len(d) - 1)) + 1>>}

\* line 342: b, *axis, _ = data.shape
Axis(d) == SubSeq(d, 2, Len(d) - 1)

\* lines 342-346: the unpacking needs two sizes at least, the assert the
\* configured number of axes
RankOk_unchecked(d) == TRUE

RankOk(d) == Len(d) >= 2 /\ Len(Axis(d)) = input_axis

\* lines 341-346
ForwardCall ==
    /\ pc = "ready"
    /\ \E d \in DataShapes : \E m \in MaskShapes(d) :
         /\ data0' = d
         /\ data' = d
         /\ mask' = m
         /\ IF RankOk(d)
            THEN pc' = "encode" /\ err' = ""
            ELSE /\ pc' = "error"
                 /\ err' = IF Len(d) < 2 THEN "ValueError" ELSE "AssertionError"
    /\ UNCHANGED <<ctorVars, x, pos_emb, g, k, steps, trace, result>>

\* lines 358-364: enc_pos is [*axis, len(axis) * (2 * num_freq_bands + 1)],
\* repeated over the batch and concatenated onto the channels
FourierEncoded(d, bands) ==
    SetLast(d, Last(d) + Len(Axis(d)) * ((bands * 2) + 1))

\* lines 348-364
EncodePositions ==
    /\ pc = "encode"
    /\ IF cfg.fourier_encode_data
       THEN /\ data' = FourierEncoded(data, cfg.num_freq_bands)
            /\ steps' = steps \o <<"linspace", "meshgrid", "fourier_encode", "cat">>
       ELSE UNCHANGED <<data, steps>>
    /\ pc' = "flatten"
    /\ UNCHANGED <<ctorVars, data0, mask, x, pos_emb, g, k, trace, result, err>>

\* line 368: rearrange(data, "b ... d -> b (...) d")
Flattened(d) == <<d[1], Prod(Axis(d)), Last(d)>>

FlattenData ==
    /\ pc = "flatten"
    /\ data' = Flattened(data)
    /\ steps' = Append(steps, "flatten")
    /\ pc' = "latents"
    /\ UNCHANGED <<ctorVars, data0, mask, x, pos_emb, g, k, trace, result, err>>

\* line 372: x = repeat(self.latents, "n d -> b n d", b=b)
BroadcastLatents ==
    /\ pc = "latents"
    /\ x' = [shape |-> <<data[1]>> \o latents, val |-> LatentsValue]
    /\ steps' = Append(steps, "repeat_latents")
    /\ pc' = "pos_emb"
    /\ UNCHANGED <<ctorVars, data0, data, mask, pos_emb, g, k, trace, result, err>>

\* SinusoidalEmbeddings(latent_dim_head)(x): a table for x's sequence length
SinuEmb(dim, xs) == <<[n |-> xs[Len(xs) - 1], dim |-> dim]>>

\* Where the loop of line 378 (and of line 382) goes next.
GroupPc(n) == IF n < Len(layers) THEN "cross_attn" ELSE "mean"
BlockPc(n, b) ==
    IF b < Len(layers[n + 1].self_attns) THEN "self_attn" ELSE GroupPc(n + 1)

\* line 375
RotaryEmbeddings ==
    /\ pc = "pos_emb"
    /\ IF sinu_emb # <<>>
       THEN /\ pos_emb' = SinuEmb(sinu_emb[1], x.shape)
            /\ steps' = Append(steps, "sinu_emb")
       ELSE /\ pos_emb' = <<>>
            /\ UNCHANGED steps
    /\ g' = 0
    /\ pc' = GroupPc(0)
    /\ UNCHANGED <<ctorVars, data0, data, mask, x, k, trace, result, err>>

\* The keyword arguments of the four calls of lines 379-384.
NoArgs == [context |-> <<>>, mask |-> <<>>, pos_emb |-> <<>>]

CrossAttnArgs_with_pos_emb(d, m, pe) == [context |-> d, mask |-> m, pos_emb |-> pe]

CrossAttnArgs_without_mask(d, m, pe) == [context |-> d, mask |-> <<>>, pos_emb |-> <<>>]

CrossAttnArgs(d, m, pe) == [context |-> d, mask |-> m, pos_emb |-> <<>>]

SelfAttnArgs(d, m, pe) == [context |-> <<>>, mask |-> <<>>, pos_emb |-> pe]

\* One statement `x = fn(x, **args) + x`: on success the latent state and
\* the trace move on, on failure the exception leaves forward.
Apply(kind, inst, args, nextPc) ==
    LET r == PreNormForward(inst, x.shape, args)
        out == SublayerOut(inst, x.val)
        sum == [shape |-> AddShape(r.shape, x.shape), val |-> Residual(out, x.val)]
    IN /\ steps' = steps \o <<kind>> \o r.ops
       /\ IF r.ok /\ CanAdd(r.shape, x.shape)
          THEN /\ x' = sum
               /\ trace' = Append(trace,
                                  [kind |-> kind, group |-> g, block |-> k,
                                   inst |-> inst.id, args |-> args,
                                   xin |-> x, out |-> out, xout |-> sum])
               /\ pc' = nextPc
               /\ err' = ""
          ELSE /\ pc' = "error"
               /\ err' = "RuntimeError"
               /\ UNCHANGED <<x, trace>>

\* line 379
CrossAttn ==
    /\ pc = "cross_attn"
    /\ Apply("cross_attn", layers[g + 1].cross_attn,
             CrossAttnArgs(data, mask, pos_emb), "cross_ff")
    /\ k' = 0
    /\ UNCHANGED <<ctorVars, data0, data, mask, pos_emb, g, result>>

\* line 380
CrossFF ==
    /\ pc = "cross_ff"
    /\ Apply("cross_ff", layers[g + 1].cross_ff, NoArgs, BlockPc(g, 0))
    /\ g' = IF Len(layers[g + 1].self_attns) = 0 THEN g + 1 ELSE g
    /\ UNCHANGED <<ctorVars, data0, data, mask, pos_emb, k, result>>

\* line 383
SelfAttn ==
    /\ pc = "self_attn"
    /\ Apply("self_attn", layers[g + 1].self_attns[k + 1].attn,
             SelfAttnArgs(data, mask, pos_emb), "self_ff")
    /\ UNCHANGED <<ctorVars, data0, data, mask, pos_emb, g, k, result>>

\* line 384
SelfFF ==
    /\ pc = "self_ff"
    /\ Apply("self_ff", layers[g + 1].self_attns[k + 1].ff, NoArgs, BlockPc(g, k + 1))
    /\ IF k + 1 < Len(layers[g + 1].self_attns)
       THEN k' = k + 1 /\ g' = g
       ELSE k' = 0 /\ g' = g + 1
    /\ UNCHANGED <<ctorVars, data0, data, mask, pos_emb, result>>

\* line 386: x = x.mean(dim=-2)
MeanPool ==
    /\ pc = "mean"
    /\ x' = [x EXCEPT !.shape = SubSeq(x.shape, 1, Len(x.shape) - 2) \o <<Last(x.shape)>>]
    /\ steps' = Append(steps, "mean")
    /\ pc' = "logits"
    /\ UNCHANGED <<ctorVars, data0, data, mask, pos_emb, g, k, trace, result, err>>

\* line 387 with lines 333-335: LayerNorm(latent_dim), Linear(latent_dim, num_classes)
ToLogits ==
    /\ pc = "logits"
    /\ steps' = Append(steps, "to_logits")
    /\ IF Last(x.shape) = latent_dim
       THEN /\ result' = SetLast(x.shape, num_classes)
            /\ pc' = "done"
            /\ err' = ""
       ELSE /\ pc' = "error"
            /\ err' = "RuntimeError"
            /\ UNCHANGED result
    /\ UNCHANGED <<ctorVars, data0, data, mask, x, pos_emb, g, k, trace>>

Forward ==
    \/ ForwardCall
    \/ EncodePositions
    \/ FlattenData
    \/ BroadcastLatents
    \/ RotaryEmbeddings
    \/ CrossAttn
    \/ CrossFF
    \/ SelfAttn
    \/ SelfFF
    \/ MeanPool
    \/ ToLogits

Next == Construct \/ Forward

Spec == Init /\ [][Next]_vars

\* ================================================================ properties
CtorPcs == {"init", "for_i", "get_latent_attn", "get_latent_ff", "get_cross_attn",
            "get_cross_ff", "to_logits"}

\* __init__ has returned a model object.
Constructed == pc \notin CtorPcs

\* forward has been called on it.
Called == Constructed /\ pc # "ready"

Depth == Len(layers)
Blocks(p) == Len(layers[p].self_attns)

\* The number of spatial axes of the data passed equals input_axis.
RankMatches == Len(data0) - 2 = input_axis

\* Length of the context the data passed flattens to.
CtxLen == Prod(Axis(data0))

\* The mask passed cannot be broadcast to the context length.
BadMask == mask # <<>> /\ Prod(Tail(mask)) \notin {1, CtxLen}

\* Positive num_freq_bands, depth and num_latents.
ValidConfig ==
    cfg.depth >= 1 /\ cfg.num_latents >= 1 /\ cfg.num_freq_bands >= 1

LatentShape == <<data0[1], cfg.num_latents, latent_dim>>

\* ------------------------------------------------------------------------ C1
\* C1: for a valid configuration and data of the configured rank (with no
\* mask or one that fits), forward raises nothing, the latent state has shape
\* [batch, num_latents, latent_dim] after every sublayer, and the value
\* returned has shape [batch, num_classes], whatever the spatial sizes.
C1_OutputShape ==
    (Called /\ ValidConfig /\ RankMatches /\ ~BadMask) =>
        /\ pc # "error"
        /\ \A n \in 1..Len(trace) : trace[n].xout.shape = LatentShape
        /\ pc \in {"cross_attn", "cross_ff", "self_attn", "self_ff", "mean"}
             => x.shape = LatentShape
        /\ pc = "done" => result = <<data0[1], num_classes>>

C1_Witness ==
    /\ pc = "done" /\ ValidConfig /\ cfg.fourier_encode_data
    /\ cfg.depth = 2 /\ cfg.self_per_cross_attn = 2
    /\ data0 = <<2, 2, 1, input_channels>>
    /\ Len(trace) = 12
    /\ result = <<2, num_classes>>

\* ------------------------------------------------------------------------ C2
\* Sublayers of one layer group, and what is expected at the n-th (from 0)
\* application of a forward call.
PerGroup == 2 + 2 * cfg.self_per_cross_attn

ExpectedKind(n) ==
    LET r == n % PerGroup
    IN IF r = 0 THEN "cross_attn"
       ELSE IF r = 1 THEN "cross_ff"
       ELSE IF r % 2 = 0 THEN "self_attn" ELSE "self_ff"

ExpectedInst(n) ==
    LET grp == layers[(n \div PerGroup) + 1]
        r == n % PerGroup
    IN IF r = 0 THEN grp.cross_attn
       ELSE IF r = 1 THEN grp.cross_ff
       ELSE IF r % 2 = 0 THEN grp.self_attns[((r - 2) \div 2) + 1].attn
       ELSE grp.self_attns[((r - 2) \div 2) + 1].ff

\* C2: the n-th sublayer application of a forward call is the sublayer the
\* order cross-attention, cross-feed-forward, then self-attention and
\* self-feed-forward per self-block, group after group, puts there; each is
\* applied to the state the one before left, and leaves its output plus that
\* state; a completed call has made depth * (2 + 2 * self_per_cross_attn).
C2_SublayerOrder ==
    Called =>
        /\ \A n \in 1..Len(trace) :
             /\ trace[n].kind = ExpectedKind(n - 1)
             /\ trace[n].group = (n - 1) \div PerGroup
             /\ trace[n].inst = ExpectedInst(n - 1).id
             /\ trace[n].xin.val =
                  (IF n = 1 THEN LatentsValue ELSE trace[n - 1].xout.val)
             /\ trace[n].xout.val = trace[n].xin.val \o trace[n].out
             /\ Len(trace[n].xout.val) = n + 1
        /\ Len(trace) > 0 => x.val = trace[Len(trace)].xout.val
        /\ Len(trace) <= cfg.depth * PerGroup
        /\ pc \in {"mean", "logits", "done"} => Len(trace) = cfg.depth * PerGroup

C2_Witness ==
    /\ pc = "done"
    /\ cfg.depth = 3 /\ cfg.self_per_cross_attn = 2
    /\ Len(trace) = 18
    /\ Len(x.val) = 19

\* ------------------------------------------------------------------------ C3
\* The instance ids of one role at depth position p (from 1).
IdsAt(role, p) ==
    CASE role = "cross_attn" -> {layers[p].cross_attn.id}
      [] role = "cross_ff" -> {layers[p].cross_ff.id}
      [] role = "latent_attn" -> {layers[p].self_attns[b].attn.id : b \in 1..Blocks(p)}
      [] role = "latent_ff" -> {layers[p].self_attns[b].ff.id : b \in 1..Blocks(p)}

\* C3: tied and depth >= 3: the latent attention of depth index 1 and that
\* of depth index 2 are one object; untied: two distinct depth positions
\* share no instance of any role.
C3_TiedSharedUntiedDistinct ==
    Constructed =>
        /\ (cfg.weight_tie_layers /\ cfg.depth >= 3) =>
             \A a \in IdsAt("latent_attn", 2), b \in IdsAt("latent_attn", 3) : a = b
        /\ ~cfg.weight_tie_layers =>
             \A role \in Roles : \A p, q \in 1..Depth :
                p # q => IdsAt(role, p) \cap IdsAt(role, q) = {}

C3_Witness ==
    /\ Constructed /\ cfg.weight_tie_layers
    /\ cfg.depth = 3 /\ cfg.self_per_cross_attn >= 1
    /\ layers[2].self_attns[1].attn.id = layers[3].self_attns[1].attn.id
    /\ layers[2].self_attns[1].attn.id # layers[1].self_attns[1].attn.id

\* ------------------------------------------------------------------------ C4
\* C4 as stated: with weight tying, every depth position beyond the first
\* uses the instances constructed at the first position (index 0).
C4_SharedWithFirst ==
    (Constructed /\ cfg.weight_tie_layers) =>
        \A role \in Roles : \A p \in 2..Depth : IdsAt(role, p) \subseteq IdsAt(role, 1)

\* C4 amended: with weight tying, every depth position beyond the first uses,
\* for each role, the one instance constructed at depth index 1, and no
\* instance of depth index 0.
C4_SharedFromSecond ==
    (Constructed /\ cfg.weight_tie_layers) =>
        \A role \in Roles : \A p \in 2..Depth :
            /\ IdsAt(role, p) \subseteq IdsAt(role, 2)
            /\ Cardinality(IdsAt(role, 2)) <= 1
            /\ IdsAt(role, p) \cap IdsAt(role, 1) = {}
            /\ \A id \in IdsAt(role, p) : cache[role] # <<>> /\ cache[role][1].id = id

C4_Witness ==
    /\ Constructed /\ cfg.weight_tie_layers
    /\ cfg.depth = 3 /\ cfg.self_per_cross_attn = 2
    /\ layers[3].cross_attn.id = layers[2].cross_attn.id
    /\ layers[3].cross_attn.id # layers[1].cross_attn.id

\* ------------------------------------------------------------------------ C5
LatentRoles == {"latent_attn", "latent_ff"}

\* C5 as stated: with weight tying, depth >= 1 and self_per_cross_attn >= 1,
\* the factory of each role constructs at most one instance.
C5_AtMostOnce ==
    (cfg.weight_tie_layers /\ cfg.depth >= 1 /\ cfg.self_per_cross_attn >= 1) =>
        \A role \in Roles : builds[role].uncached + builds[role].cached <= 1

\* C5 amended: with weight tying, the factory of each role constructs at
\* most one instance over all its cached invocations (those of depth index
\* >= 1), the one kept in the cache and returned by every later cached
\* invocation; each invocation of depth index 0 is uncached and constructs a
\* fresh instance.
C5_AtMostOncePerCachedRole ==
    cfg.weight_tie_layers =>
        \A role \in Roles :
            /\ builds[role].cached <= 1
            /\ builds[role].cached = 1 <=> cache[role] # <<>>
            /\ Constructed =>
                 /\ builds[role].uncached =
                      (IF cfg.depth = 0 THEN 0
                       ELSE IF role \in LatentRoles THEN cfg.self_per_cross_attn ELSE 1)
                 /\ builds[role].uncached = Cardinality(IF Depth >= 1 THEN IdsAt(role, 1) ELSE {})
                 /\ builds[role].cached =
                      (IF cfg.depth >= 2 /\ (role \in LatentRoles => cfg.self_per_cross_attn >= 1)
                       THEN 1 ELSE 0)
                 /\ \A p \in 2..Depth : \A id \in IdsAt(role, p) : id = cache[role][1].id

C5_Witness ==
    /\ Constructed /\ cfg.weight_tie_layers
    /\ cfg.depth = 3 /\ cfg.self_per_cross_attn = 2
    /\ builds["latent_attn"] = [uncached |-> 2, cached |-> 1]
    /\ builds["cross_attn"] = [uncached |-> 1, cached |-> 1]

\* ------------------------------------------------------------------------ C6
\* C6: a forward call on data whose number of spatial axes differs from
\* input_axis raises at once: nothing was encoded, flattened, broadcast or
\* applied, no rotation table was computed, and nothing is returned.
C6_RankMismatchFailsFirst ==
    (Called /\ ~RankMatches) =>
        /\ pc = "error"
        /\ err \in {"AssertionError", "ValueError"}
        /\ steps = <<>> /\ trace = <<>>
        /\ data = data0
        /\ x = [shape |-> <<>>, val |-> <<>>]
        /\ pos_emb = <<>>
        /\ result = <<>>

C6_Witness ==
    /\ pc = "error" /\ err = "AssertionError"
    /\ Len(data0) = 5
    /\ cfg.depth >= 1 /\ cfg.fourier_encode_data /\ cfg.self_attn_rel_pos
    /\ steps = <<>>

\* ------------------------------------------------------------------------ C7
\* C7 as stated: a non-positive num_freq_bands, depth or num_latents makes
\* construction fail, so no model object exists and forward never runs.
C7_InvalidConfigRejected ==
    (cfg.num_freq_bands <= 0 \/ cfg.depth <= 0 \/ cfg.num_latents <= 0) => ~Constructed

\* ------------------------------------------------------------------------ C8
\* C8 as stated: a mask that cannot be broadcast to the context length makes
\* forward fail at its start, before any step has run.
C8_BadMaskFailsAtStart ==
    (Called /\ BadMask) => (pc = "error" /\ steps = <<>>)

\* What forward has executed when the first cross-attention reaches its
\* masked_fill.
StepsToMaskedFill ==
    (IF cfg.fourier_encode_data
     THEN <<"linspace", "meshgrid", "fourier_encode", "cat">> ELSE <<>>)
    \o <<"flatten", "repeat_latents">>
    \o (IF cfg.self_attn_rel_pos THEN <<"sinu_emb">> ELSE <<>>)
    \o <<"cross_attn", "norm", "norm_context", "to_q", "to_kv", "split_heads", "sim",
         "masked_fill">>

\* C8 amended: on data of the configured rank, a mask that cannot be
\* broadcast to the context length is rejected by the first cross-attention
\* applied, where the scores are masked: after the positional encoding, the
\* flattening, the latent broadcast, the rotation table and that attention's
\* projections, before any sublayer has completed, with nothing returned; a
\* model without layer groups never looks at the mask and returns normally.
C8_BadMaskFailsInFirstCrossAttn ==
    (Called /\ RankMatches /\ BadMask) =>
        /\ trace = <<>>
        /\ pc = "error" =>
             /\ Depth >= 1
             /\ err = "RuntimeError"
             /\ steps = StepsToMaskedFill
             /\ x = [shape |-> LatentShape, val |-> LatentsValue]
             /\ result = <<>>
        /\ Depth >= 1 => pc \in {"encode", "flatten", "latents", "pos_emb",
                                 "cross_attn", "error"}
        /\ Depth = 0 => pc # "error"

C8_Witness ==
    /\ pc = "error" /\ RankMatches /\ BadMask
    /\ cfg.fourier_encode_data /\ cfg.self_attn_rel_pos /\ cfg.depth = 2
    /\ steps = StepsToMaskedFill
    /\ pos_emb # <<>>

\* ------------------------------------------------------------------------ C9
\* How often op occurs in a log.
Count(log, op) == Cardinality({n \in 1..Len(log) : log[n] = op})

\* What forward logs before it computes the rotation table.
StepsBeforeRotary ==
    (IF cfg.fourier_encode_data
     THEN <<"linspace", "meshgrid", "fourier_encode", "cat">> ELSE <<>>)
    \o <<"flatten", "repeat_latents">>

BeforeLayers == {"encode", "flatten", "latents", "pos_emb"}

\* C9: the rotation table is computed once, before the first layer group,
\* when rotary positions are enabled and never otherwise; every
\* self-attention is passed that table and no mask, every cross-attention the
\* call's mask and no table.
C9_MaskAndRotaryRouting ==
    (Called /\ RankMatches) =>
        /\ Count(steps, "sinu_emb") =
             (IF cfg.self_attn_rel_pos /\ pc \notin BeforeLayers THEN 1 ELSE 0)
        /\ (cfg.self_attn_rel_pos /\ pc \notin BeforeLayers) =>
             /\ SubSeq(steps, 1, Len(StepsBeforeRotary)) = StepsBeforeRotary
             /\ steps[Len(StepsBeforeRotary) + 1] = "sinu_emb"
        /\ (pc \notin BeforeLayers) => (pos_emb # <<>> <=> cfg.self_attn_rel_pos)
        /\ Count(steps, "apply_rotary_emb") =
             (IF cfg.self_attn_rel_pos
              THEN Count(steps, "self_attn") ELSE 0)
        /\ \A n \in 1..Len(trace) :
             /\ trace[n].kind = "cross_attn" =>
                  /\ trace[n].args.mask = mask
                  /\ trace[n].args.pos_emb = <<>>
             /\ trace[n].kind = "self_attn" =>
                  /\ trace[n].args.pos_emb = pos_emb
                  /\ trace[n].args.mask = <<>>

C9_Witness ==
    /\ pc = "done" /\ cfg.self_attn_rel_pos /\ mask # <<>>
    /\ cfg.depth = 2 /\ cfg.self_per_cross_attn = 2
    /\ Count(steps, "sinu_emb") = 1
    /\ Count(steps, "apply_rotary_emb") = 4
    /\ Count(steps, "masked_fill") = 2

\* ----------------------------------------------------------------------- C10
\* C10: tied, self_per_cross_attn >= 2: the self-blocks of group 0 hold
\* pairwise distinct latent attentions and feed-forwards; those of each later
\* group hold one latent attention and one feed-forward, none of them of
\* group 0.
C10_FirstGroupUncached ==
    (Constructed /\ cfg.weight_tie_layers /\ cfg.self_per_cross_attn >= 2) =>
        \A role \in LatentRoles :
            /\ Depth >= 1 => Cardinality(IdsAt(role, 1)) = cfg.self_per_cross_attn
            /\ \A p \in 2..Depth :
                 /\ Cardinality(IdsAt(role, p)) = 1
                 /\ IdsAt(role, p) \cap IdsAt(role, 1) = {}

C10_Witness ==
    /\ Constructed /\ cfg.weight_tie_layers
    /\ cfg.depth = 2 /\ cfg.self_per_cross_attn = 2
    /\ layers[1].self_attns[1].attn.id # layers[1].self_attns[2].attn.id
    /\ layers[2].self_attns[1].attn.id = layers[2].self_attns[2].attn.id
    /\ layers[2].self_attns[1].ff.id = layers[2].self_attns[2].ff.id
====
